---- MODULE Spec2Model ----
(***************************************************************************)
(* Model of recursive_descent_parser_tutorial.c.                           *)
(*                                                                         *)
(* The C call stack is the sequence `stack`; every frame holds the locals  *)
(* of one parsing function and the label of the statement it resumes at.   *)
(* One action is the code of one function between two consecutive          *)
(* call/return/loop-head points.  struct ParseData is the pair             *)
(* (currentPosition, errorCode); currentPosition is kept as the offset of  *)
(* the pointer from the start of the string it points into.                *)
(*                                                                         *)
(* ValueType is a 64-bit long long.  The model computes exactly with       *)
(* values in -MaxValue..MaxValue; a behaviour in which a value would leave *)
(* that range is cut off in the state pc = "range_abort" (in C this is a   *)
(* larger 64-bit value or a signed overflow, which is undefined).          *)
(***************************************************************************)
EXTENDS Integers, Sequences, FiniteSets, TLC

VARIABLES argv, argInd, pc, str, currentPosition, errorCode, stack, retval, output, exitStatus

vars == <<argv, argInd, pc, str, currentPosition, errorCode, stack, retval, output, exitStatus>>

(* ------------------------------ bounds --------------------------------- *)
MaxLen == 4
MaxValue == 1000000000
MaxMinus == 4
MaxOperand == 3
MaxLenWS == 3

(* --------------------------- characters -------------------------------- *)
NUL == "NUL"

ParseError_None == "ParseError_None"
ParseError_Syntax == "ParseError_Syntax"
ParseError_Div0 == "ParseError_Div0"
ParseError_NoClosingParenthesis == "ParseError_NoClosingParenthesis"

ParseErrorCode ==
    {ParseError_None, ParseError_Syntax, ParseError_Div0, ParseError_NoClosingParenthesis}

(* isspace of the "C" locale ('\v' has no TLA+ string escape and is left out) *)
isspace(ch) == ch \in {" ", "\t", "\n", "\f", "\r"}

isdigit(ch) == ch \in {"0", "1", "2", "3", "4", "5", "6", "7", "8", "9"}

DigitValue(ch) ==
    CASE ch = "0" -> 0 [] ch = "1" -> 1 [] ch = "2" -> 2 [] ch = "3" -> 3
      [] ch = "4" -> 4 [] ch = "5" -> 5 [] ch = "6" -> 6 [] ch = "7" -> 7
      [] ch = "8" -> 8 [] ch = "9" -> 9

(* *p for a pointer at offset p into the NUL-terminated string s *)
CharOf(s, p) == IF p < Len(s) THEN s[p + 1] ELSE NUL

CharAt(p) == CharOf(str, p)

RECURSIVE skipWhitespaceIn(_, _)
skipWhitespaceIn(s, p) ==
    IF isspace(CharOf(s, p)) THEN skipWhitespaceIn(s, p + 1) ELSE p

skipWhitespace(p) == skipWhitespaceIn(str, p)

(* ------------------------ ValueType arithmetic -------------------------- *)
Abs(x) == IF x < 0 THEN -x ELSE x

InRange(v) == -MaxValue <= v /\ v <= MaxValue

MulInRange(a, b) == a = 0 \/ b = 0 \/ Abs(a) <= MaxValue \div Abs(b)

(* C integer division truncates toward zero *)
CDiv(a, b) ==
    IF (a < 0) = (b < 0) THEN Abs(a) \div Abs(b) ELSE -(Abs(a) \div Abs(b))

(* ------------------------------ strtoll --------------------------------- *)
(* the digit run starting at p: end offset, value, and whether it fits *)
RECURSIVE scanDigits(_, _, _)
scanDigits(p, acc, fits) ==
    IF isdigit(CharAt(p))
    THEN IF fits /\ acc <= (MaxValue - DigitValue(CharAt(p))) \div 10
         THEN scanDigits(p + 1, acc * 10 + DigitValue(CharAt(p)), TRUE)
         ELSE scanDigits(p + 1, acc, FALSE)
    ELSE [endPtr |-> p, value |-> acc, fits |-> fits]

(* mutant: the literal scan takes no sign *)
strtoll_NoSign(p) ==
    LET q == skipWhitespace(p)
        scan == scanDigits(q, 0, TRUE)
    IN  IF scan.endPtr = q
        THEN [endPtr |-> p, value |-> 0, fits |-> TRUE]
        ELSE [endPtr |-> scan.endPtr, value |-> scan.value, fits |-> scan.fits]

(* strtoll(str + p, &endPtr, 10): leading white space, an optional sign,   *)
(* decimal digits; without digits nothing is converted and endPtr = nptr.  *)
strtoll(p) ==
    LET q == skipWhitespace(p)
        signed == CharAt(q) \in {"+", "-"}
        d == IF signed THEN q + 1 ELSE q
        scan == scanDigits(d, 0, TRUE)
    IN  IF scan.endPtr = d
        THEN [endPtr |-> p, value |-> 0, fits |-> TRUE]
        ELSE [endPtr |-> scan.endPtr,
              value |-> IF CharAt(q) = "-" THEN -scan.value ELSE scan.value,
              fits |-> scan.fits]

(* ------------------------------ call stack ------------------------------ *)
NewFrame(label) ==
    [pc |-> label, result |-> 0, result2 |-> 0, c |-> NUL, factor |-> 0]

Top == stack[Len(stack)]

At(label) == pc = "in_parse" /\ stack # <<>> /\ Top.pc = label

Below == SubSeq(stack, 1, Len(stack) - 1)

(* the running function continues as frame f and calls the function `label` *)
Call(f, label) == stack' = Append(Append(Below, f), NewFrame(label))

(* the running function continues as frame f *)
Goto(f) == stack' = Append(Below, f)

(* the running function returns v to its caller *)
Return(v) == stack' = Below /\ retval' = v

(* a value left the modelled range: the behaviour is cut off *)
RangeAbort ==
    /\ pc' = "range_abort"
    /\ stack' = <<>>
    /\ UNCHANGED <<argv, argInd, str, currentPosition, errorCode, retval, output, exitStatus>>

(* --------------------------- parseAddSubtract --------------------------- *)
parseAddSubtract_entry ==
    /\ At("as_entry")
    /\ Call([Top EXCEPT !.pc = "as_first"], "md_entry")
    /\ UNCHANGED <<argv, argInd, pc, str, currentPosition, errorCode, retval, output, exitStatus>>

parseAddSubtract_first ==
    /\ At("as_first")
    /\ IF errorCode # ParseError_None
       THEN Return(retval)
       ELSE Goto([Top EXCEPT !.result = retval, !.pc = "as_loop"]) /\ UNCHANGED retval
    /\ UNCHANGED <<argv, argInd, pc, str, currentPosition, errorCode, output, exitStatus>>

(* mutant: the right operand is parsed by parseAddSubtract itself, which   *)
(* makes '+' and '-' associate right to left                               *)
parseAddSubtract_loop_RightToLeft ==
    /\ At("as_loop")
    /\ LET p == skipWhitespace(currentPosition)
           c == CharAt(p)
       IN  IF c # "+" /\ c # "-"
           THEN /\ currentPosition' = p
                /\ Return(Top.result)
           ELSE /\ currentPosition' = p + 1
                /\ Call([Top EXCEPT !.c = c, !.pc = "as_second"], "as_entry")
                /\ UNCHANGED retval
    /\ UNCHANGED <<argv, argInd, pc, str, errorCode, output, exitStatus>>

parseAddSubtract_loop ==
    /\ At("as_loop")
    /\ LET p == skipWhitespace(currentPosition)
           c == CharAt(p)
       IN  IF c # "+" /\ c # "-"
           THEN /\ currentPosition' = p
                /\ Return(Top.result)
           ELSE /\ currentPosition' = p + 1
                /\ Call([Top EXCEPT !.c = c, !.pc = "as_second"], "md_entry")
                /\ UNCHANGED retval
    /\ UNCHANGED <<argv, argInd, pc, str, errorCode, output, exitStatus>>

parseAddSubtract_second ==
    /\ At("as_second")
    /\ LET result2 == retval
           r == IF Top.c = "+" THEN Top.result + result2 ELSE Top.result - result2
       IN  IF errorCode # ParseError_None
           THEN /\ Return(Top.result)
                /\ UNCHANGED pc
           ELSE IF InRange(r)
                THEN /\ Goto([Top EXCEPT !.result = r, !.result2 = result2, !.pc = "as_loop"])
                     /\ UNCHANGED <<pc, retval>>
                ELSE RangeAbort
    /\ UNCHANGED <<argv, argInd, str, currentPosition, errorCode, output, exitStatus>>

(* ------------------------------ parseMulDiv ----------------------------- *)
parseMulDiv_entry ==
    /\ At("md_entry")
    /\ Call([Top EXCEPT !.pc = "md_first"], "pe_entry")
    /\ UNCHANGED <<argv, argInd, pc, str, currentPosition, errorCode, retval, output, exitStatus>>

parseMulDiv_first ==
    /\ At("md_first")
    /\ IF errorCode # ParseError_None
       THEN Return(0)
       ELSE Goto([Top EXCEPT !.result = retval, !.pc = "md_loop"]) /\ UNCHANGED retval
    /\ UNCHANGED <<argv, argInd, pc, str, currentPosition, errorCode, output, exitStatus>>

parseMulDiv_loop ==
    /\ At("md_loop")
    /\ LET p == skipWhitespace(currentPosition)
           c == CharAt(p)
       IN  IF c # "*" /\ c # "/"
           THEN /\ currentPosition' = p
                /\ Return(Top.result)
           ELSE /\ currentPosition' = p + 1
                /\ Call([Top EXCEPT !.c = c, !.pc = "md_second"], "pe_entry")
                /\ UNCHANGED retval
    /\ UNCHANGED <<argv, argInd, pc, str, errorCode, output, exitStatus>>

parseMulDiv_second ==
    /\ At("md_second")
    /\ LET result2 == retval
       IN  IF errorCode # ParseError_None
           THEN /\ Return(0)
                /\ UNCHANGED <<pc, errorCode>>
           ELSE IF Top.c = "*"
                THEN IF MulInRange(Top.result, result2)
                     THEN /\ Goto([Top EXCEPT !.result = Top.result * result2,
                                              !.result2 = result2, !.pc = "md_loop"])
                          /\ UNCHANGED <<pc, errorCode, retval>>
                     ELSE RangeAbort
                ELSE IF result2 = 0
                     THEN /\ errorCode' = ParseError_Div0
                          /\ Return(0)
                          /\ UNCHANGED pc
                     ELSE /\ Goto([Top EXCEPT !.result = CDiv(Top.result, result2),
                                              !.result2 = result2, !.pc = "md_loop"])
                          /\ UNCHANGED <<pc, errorCode, retval>>
    /\ UNCHANGED <<argv, argInd, str, currentPosition, output, exitStatus>>

(* ----------------------------- parseExponent ---------------------------- *)
parseExponent_entry ==
    /\ At("pe_entry")
    /\ Call([Top EXCEPT !.pc = "pe_first"], "um_entry")
    /\ UNCHANGED <<argv, argInd, pc, str, currentPosition, errorCode, retval, output, exitStatus>>

parseExponent_first ==
    /\ At("pe_first")
    /\ LET result == retval
           p == skipWhitespace(currentPosition)
       IN  IF errorCode # ParseError_None
           THEN /\ Return(result)
                /\ UNCHANGED currentPosition
           ELSE IF CharAt(p) # "^"
                THEN /\ currentPosition' = p
                     /\ Return(result)
                ELSE /\ currentPosition' = p + 1
                     /\ Call([Top EXCEPT !.result = result, !.pc = "pe_second"], "pe_entry")
                     /\ UNCHANGED retval
    /\ UNCHANGED <<argv, argInd, pc, str, errorCode, output, exitStatus>>

parseExponent_second ==
    /\ At("pe_second")
    /\ LET result == Top.result
           result2 == retval
       IN  IF errorCode # ParseError_None
           THEN Return(result) /\ UNCHANGED errorCode
           ELSE IF result2 = 0
                THEN Return(1) /\ UNCHANGED errorCode
                ELSE IF result2 < 0 /\ result = 0
                     THEN errorCode' = ParseError_Div0 /\ Return(0)
                     ELSE IF result2 < 0
                          THEN Return(0) /\ UNCHANGED errorCode
                          ELSE /\ Goto([Top EXCEPT !.result2 = result2, !.factor = result,
                                                   !.pc = "pe_pow"])
                               /\ UNCHANGED <<errorCode, retval>>
    /\ UNCHANGED <<argv, argInd, pc, str, currentPosition, output, exitStatus>>

(* mutant: while(result2--) result *= factor;  multiplies once too often *)
parseExponent_pow_PostDecrement ==
    /\ At("pe_pow")
    /\ IF Top.result2 # 0
       THEN IF MulInRange(Top.result, Top.factor)
            THEN /\ Goto([Top EXCEPT !.result2 = Top.result2 - 1,
                                     !.result = Top.result * Top.factor])
                 /\ UNCHANGED <<pc, retval>>
            ELSE RangeAbort
       ELSE /\ Return(Top.result)
            /\ UNCHANGED pc
    /\ UNCHANGED <<argv, argInd, str, currentPosition, errorCode, output, exitStatus>>

(* mutant: while(result2 - 1) result *= factor;  never counts down *)
parseExponent_pow_NoDecrement ==
    /\ At("pe_pow")
    /\ IF Top.result2 - 1 # 0
       THEN IF MulInRange(Top.result, Top.factor)
            THEN /\ Goto([Top EXCEPT !.result = Top.result * Top.factor])
                 /\ UNCHANGED <<pc, retval>>
            ELSE RangeAbort
       ELSE /\ Return(Top.result)
            /\ UNCHANGED pc
    /\ UNCHANGED <<argv, argInd, str, currentPosition, errorCode, output, exitStatus>>

(* one test of the condition of  while(--result2) result *= factor;  *)
parseExponent_pow ==
    /\ At("pe_pow")
    /\ LET result2 == Top.result2 - 1
       IN  IF result2 # 0
           THEN IF MulInRange(Top.result, Top.factor)
                THEN /\ Goto([Top EXCEPT !.result2 = result2,
                                         !.result = Top.result * Top.factor])
                     /\ UNCHANGED <<pc, retval>>
                ELSE RangeAbort
           ELSE /\ Return(Top.result)
                /\ UNCHANGED pc
    /\ UNCHANGED <<argv, argInd, str, currentPosition, errorCode, output, exitStatus>>

(* ---------------------------- parseUnaryMinus --------------------------- *)
parseUnaryMinus_entry ==
    /\ At("um_entry")
    /\ LET p == skipWhitespace(currentPosition)
           c == CharAt(p)
       IN  /\ currentPosition' = (IF c = "-" THEN p + 1 ELSE p)
           /\ Call([Top EXCEPT !.c = c, !.pc = "um_after"], "pp_entry")
    /\ UNCHANGED <<argv, argInd, pc, str, errorCode, retval, output, exitStatus>>

parseUnaryMinus_after ==
    /\ At("um_after")
    /\ Return(IF Top.c = "-" THEN -retval ELSE retval)
    /\ UNCHANGED <<argv, argInd, pc, str, currentPosition, errorCode, output, exitStatus>>

(* --------------------------- parseParentheses --------------------------- *)
parseParentheses_entry ==
    /\ At("pp_entry")
    /\ LET p == skipWhitespace(currentPosition)
       IN  IF CharAt(p) # "("
           THEN /\ currentPosition' = p
                /\ Call([Top EXCEPT !.pc = "pp_value"], "pv_entry")
           ELSE /\ currentPosition' = p + 1
                /\ Call([Top EXCEPT !.pc = "pp_after"], "as_entry")
    /\ UNCHANGED <<argv, argInd, pc, str, errorCode, retval, output, exitStatus>>

(* return parseValue(data); *)
parseParentheses_value ==
    /\ At("pp_value")
    /\ Return(retval)
    /\ UNCHANGED <<argv, argInd, pc, str, currentPosition, errorCode, output, exitStatus>>

(* mutant: the character after the sub-expression is skipped before it is  *)
(* known to be ')'                                                         *)
parseParentheses_after_SkipFirst ==
    /\ At("pp_after")
    /\ LET result == retval
           p == skipWhitespace(currentPosition)
       IN  IF CharAt(p) # ")"
           THEN /\ currentPosition' = p + 1
                /\ errorCode' = ParseError_NoClosingParenthesis
                /\ Return(0)
           ELSE /\ currentPosition' = p + 1
                /\ Return(result)
                /\ UNCHANGED errorCode
    /\ UNCHANGED <<argv, argInd, pc, str, output, exitStatus>>

parseParentheses_after ==
    /\ At("pp_after")
    /\ LET result == retval
           p == skipWhitespace(currentPosition)
       IN  IF CharAt(p) # ")"
           THEN /\ currentPosition' = p
                /\ errorCode' = ParseError_NoClosingParenthesis
                /\ Return(0)
           ELSE /\ currentPosition' = p + 1
                /\ Return(result)
                /\ UNCHANGED errorCode
    /\ UNCHANGED <<argv, argInd, pc, str, output, exitStatus>>

(* ------------------------------- parseValue ----------------------------- *)
parseValue ==
    /\ At("pv_entry")
    /\ LET p == skipWhitespace(currentPosition)
           conv == strtoll(p)
       IN  IF conv.fits
           THEN /\ errorCode' = (IF conv.endPtr = p THEN ParseError_Syntax ELSE errorCode)
                /\ currentPosition' = conv.endPtr
                /\ Return(conv.value)
                /\ UNCHANGED pc
           ELSE RangeAbort
    /\ UNCHANGED <<argv, argInd, str, output, exitStatus>>

(* ---------------------------- parseInputString -------------------------- *)
parseInputString_entry ==
    /\ At("pis_entry")
    /\ Call([Top EXCEPT !.pc = "pis_after"], "as_entry")
    /\ UNCHANGED <<argv, argInd, pc, str, currentPosition, errorCode, retval, output, exitStatus>>

(* mutant: the driver does not look at what is left of the input *)
parseInputString_after_NoEndCheck ==
    /\ At("pis_after")
    /\ IF errorCode # ParseError_None
       THEN Return(0)
       ELSE Return(retval)
    /\ UNCHANGED <<argv, argInd, pc, str, currentPosition, errorCode, output, exitStatus>>

parseInputString_after ==
    /\ At("pis_after")
    /\ LET result == retval
           p == skipWhitespace(currentPosition)
       IN  IF errorCode # ParseError_None
           THEN /\ Return(0)
                /\ UNCHANGED <<currentPosition, errorCode>>
           ELSE /\ currentPosition' = p
                /\ errorCode' = (IF CharAt(p) # NUL THEN ParseError_Syntax ELSE errorCode)
                /\ Return(result)
    /\ UNCHANGED <<argv, argInd, pc, str, output, exitStatus>>

(* ---------------------------------- main -------------------------------- *)
errorMessages(code) ==
    CASE code = ParseError_Syntax -> "Syntax error"
      [] code = ParseError_Div0 -> "Division by 0"
      [] code = ParseError_NoClosingParenthesis -> "Expecting )"

(* what one argument leaves on stdout: the value, or the diagnostic with   *)
(* the number of spaces written before the caret                           *)
ValueLine(v) == [kind |-> "value", value |-> v, caret |-> 0, msg |-> ""]

printErrorMsg == [kind |-> "error", value |-> 0, caret |-> currentPosition,
                  msg |-> errorMessages(errorCode)]

(* the head of the for loop: the next argument is parsed, or main returns 0 *)
main_loop ==
    /\ pc = "main_loop"
    /\ IF argInd <= Len(argv)
       THEN /\ str' = argv[argInd]
            /\ currentPosition' = 0
            /\ errorCode' = ParseError_None
            /\ stack' = <<NewFrame("pis_entry")>>
            /\ pc' = "in_parse"
            /\ UNCHANGED exitStatus
       ELSE /\ pc' = "exit"
            /\ exitStatus' = 0
            /\ UNCHANGED <<str, currentPosition, errorCode, stack>>
    /\ UNCHANGED <<argv, argInd, retval, output>>

main_after ==
    /\ pc = "in_parse"
    /\ stack = <<>>
    /\ IF errorCode # ParseError_None
       THEN /\ output' = Append(output, printErrorMsg)
            /\ exitStatus' = 1
            /\ pc' = "exit"
            /\ UNCHANGED argInd
       ELSE /\ output' = Append(output, ValueLine(retval))
            /\ argInd' = argInd + 1
            /\ pc' = "main_loop"
            /\ UNCHANGED exitStatus
    /\ UNCHANGED <<argv, str, currentPosition, errorCode, stack, retval>>

Next ==
    \/ main_loop
    \/ main_after
    \/ parseInputString_entry
    \/ parseInputString_after
    \/ parseAddSubtract_entry
    \/ parseAddSubtract_first
    \/ parseAddSubtract_loop
    \/ parseAddSubtract_second
    \/ parseMulDiv_entry
    \/ parseMulDiv_first
    \/ parseMulDiv_loop
    \/ parseMulDiv_second
    \/ parseExponent_entry
    \/ parseExponent_first
    \/ parseExponent_second
    \/ parseExponent_pow
    \/ parseUnaryMinus_entry
    \/ parseUnaryMinus_after
    \/ parseParentheses_entry
    \/ parseParentheses_value
    \/ parseParentheses_after
    \/ parseValue

(* ------------------------------- inputs --------------------------------- *)
Alphabet == {"0", "2", "-", "/", "^", "(", ")", " "}

RECURSIVE StringsOfLen(_, _)
StringsOfLen(A, n) ==
    IF n = 0 THEN {<<>>}
    ELSE {Append(s, ch) : s \in StringsOfLen(A, n - 1), ch \in A}

Strings(A, n) == UNION {StringsOfLen(A, k) : k \in 0..n}

SpecExamples ==
    { <<"1", "-", "2", "+", "3">>,
      <<"2", "^", "3", "^", "2">>,
      <<"1", "+", "2", "*", "3">>,
      <<"(", "1", "+", "2", ")", "*", "3">>,
      <<"5", "/", "0">>,
      <<"0", "^", "-", "1">>,
      <<"2", "^", "-", "1">>,
      <<"5", "^", "0">>,
      <<"0", "^", "0">>,
      <<"(", "1", "+", "2">>,
      <<"1", " ", "+", " ", "5", " ", "*", " ", "(", "8", "-", "(", "3", "+", "5", "*",
        "(", "1", "0", "+", "2", "0", ")", ")", ")", " ", "-", " ", "2", "^", "5", "^", "2">>,
      <<"3", " ", "4">>,
      <<"-", "2", "^", "4">>,
      <<"8", "/", "-", "3">>,
      <<"-", "(", "1", "0", "+", "2", "0", ")">>,
      <<"2", " ", "*", "\t", "3">>,
      <<"(", "1", "/", "0">>,
      <<"(", "5", "/", "0">>,
      <<"(", "5", "/", "0", ")">>,
      <<"(", "0", "^", "-", "1">>,
      <<"-", "-", " ", "5">> }

(* --------------------------- further inputs ----------------------------- *)
DigitChar(d) == <<"0", "1", "2", "3", "4", "5", "6", "7", "8", "9">>[d + 1]

RECURSIVE NatChars(_)
NatChars(n) ==
    IF n < 10 THEN <<DigitChar(n)>> ELSE Append(NatChars(n \div 10), DigitChar(n % 10))

IntChars(n) == IF n < 0 THEN <<"-">> \o NatChars(-n) ELSE NatChars(n)

Operands == (-MaxOperand)..MaxOperand

(* the input "b^e" *)
ExponentInput(b, e) == IntChars(b) \o <<"^">> \o IntChars(e)

ExponentInputs == {ExponentInput(b, e) : b \in Operands, e \in Operands}

Minuses(k) == [i \in 1..k |-> "-"]

(* "5", "-5", "--5", ... / "25", "2-5", "2--5", ... / "(5)", "-(5)", "--(5)", ... *)
MinusLiteral(k) == Minuses(k) \o <<"5">>
MinusBinary(k) == <<"2">> \o Minuses(k) \o <<"5">>
MinusParen(k) == Minuses(k) \o <<"(", "5", ")">>

MinusChainInputs ==
    UNION {{MinusLiteral(k), MinusBinary(k), MinusParen(k)} : k \in 0..MaxMinus}

Inputs ==
    Strings(Alphabet, MaxLen) \cup SpecExamples \cup ExponentInputs \cup MinusChainInputs

InitWith(args) ==
    /\ argv \in args
    /\ argInd = 1
    /\ pc = "main_loop"
    /\ str = <<>>
    /\ currentPosition = 0
    /\ errorCode = ParseError_None
    /\ stack = <<>>
    /\ retval = 0
    /\ output = <<>>
    /\ exitStatus = 0

(* one expression on the command line *)
Init == InitWith({<<s>> : s \in Inputs})

Spec == Init /\ [][Next]_vars

(* the program runs to completion: no step waits for anything *)
FairSpec == Spec /\ WF_vars(Next)

(* two expressions on the command line that differ in one white-space      *)
(* character between two tokens (never between two digits of a literal)    *)
AlphabetWS == {"0", "5", "-", "/", "(", ")"}

Gaps(s) == {i \in 0..Len(s) : i = 0 \/ ~(isdigit(CharOf(s, i - 1)) /\ isdigit(CharOf(s, i)))}

InsertAt(s, i, ch) == SubSeq(s, 1, i) \o <<ch>> \o SubSeq(s, i + 1, Len(s))

WhitespaceVariants(s, W) == {InsertAt(s, i, ch) : i \in Gaps(s), ch \in W}

WhitespacePairs ==
    UNION { UNION {{<<s, t>>, <<t, s>>} : t \in WhitespaceVariants(s, {" "})}
            : s \in Strings(AlphabetWS, MaxLenWS) \cup SpecExamples }

InitWS == InitWith(WhitespacePairs)

SpecWS == InitWS /\ [][Next]_vars

(* ------------------------------ properties ------------------------------ *)
(* parseInputString has returned to main *)
ParseDone == pc = "in_parse" /\ stack = <<>>

InParse == pc = "in_parse"

(* C1: once errorCode is set during a parse, no later step of the parse    *)
(* changes it to a different value.                                        *)
C1_ErrorWriteOnce ==
    [][(InParse /\ errorCode # ParseError_None) => errorCode' = errorCode]_vars

(* C2: once errorCode is set during a parse, no later step of the parse    *)
(* moves currentPosition, so the caret printErrorMsg writes is at the      *)
(* offset where the error was recorded.                                    *)
C2_CursorFrozenOnError ==
    [][(InParse /\ errorCode # ParseError_None) => currentPosition' = currentPosition]_vars

(* C3: a '/' whose right operand is zero, or a '^' with base zero and a    *)
(* negative exponent, reached without an earlier error, records Div0, and  *)
(* the parse ends with Div0: the code stays Div0 up to the diagnostic.     *)
DivisionByZeroStep ==
    /\ errorCode = ParseError_None
    /\ \/ At("md_second") /\ Top.c = "/" /\ retval = 0
       \/ At("pe_second") /\ Top.result = 0 /\ retval < 0

C3_DivisionByZeroReported ==
    [][/\ DivisionByZeroStep => (errorCode' = ParseError_Div0 /\ retval' = 0)
       /\ errorCode = ParseError_Div0 => errorCode' = ParseError_Div0]_vars

(* --------------------------- reference evaluator ------------------------ *)
(* The value of an expression by its grammar, computed by splitting the    *)
(* text at its operators: at the last '+' or '-' outside parentheses that  *)
(* follows an operand, else at the last '*' or '/' outside parentheses,    *)
(* else at the first '^' outside parentheses; what is left is an optional  *)
(* unary minus before a parenthesized expression or a signed literal.      *)
Strip(s) == SelectSeq(s, LAMBDA ch : ~isspace(ch))

Depth(s, i) ==
    Cardinality({j \in 1..(i - 1) : s[j] = "("}) - Cardinality({j \in 1..(i - 1) : s[j] = ")"})

BinaryAt(s, ops) ==
    {i \in 2..Len(s) : /\ s[i] \in ops
                       /\ Depth(s, i) = 0
                       /\ (isdigit(s[i - 1]) \/ s[i - 1] = ")")}

SetMax(S) == CHOOSE x \in S : \A y \in S : y <= x
SetMin(S) == CHOOSE x \in S : \A y \in S : x <= y

RECURSIVE RefPow(_, _)
RefPow(b, e) == IF e = 0 THEN 1 ELSE IF e < 0 THEN 0 ELSE b * RefPow(b, e - 1)

RECURSIVE RefLiteral(_, _)
RefLiteral(s, n) == IF n = 0 THEN 0 ELSE 10 * RefLiteral(s, n - 1) + DigitValue(s[n])

RECURSIVE RefExpr(_), RefTerm(_), RefPower(_), RefUnary(_), RefAtom(_)
RefExpr(s) ==
    LET I == BinaryAt(s, {"+", "-"})
        k == SetMax(I)
    IN  IF I = {} THEN RefTerm(s)
        ELSE IF s[k] = "+"
             THEN RefExpr(SubSeq(s, 1, k - 1)) + RefTerm(SubSeq(s, k + 1, Len(s)))
             ELSE RefExpr(SubSeq(s, 1, k - 1)) - RefTerm(SubSeq(s, k + 1, Len(s)))

RefTerm(s) ==
    LET I == BinaryAt(s, {"*", "/"})
        k == SetMax(I)
    IN  IF I = {} THEN RefPower(s)
        ELSE IF s[k] = "*"
             THEN RefTerm(SubSeq(s, 1, k - 1)) * RefPower(SubSeq(s, k + 1, Len(s)))
             ELSE CDiv(RefTerm(SubSeq(s, 1, k - 1)), RefPower(SubSeq(s, k + 1, Len(s))))

RefPower(s) ==
    LET I == BinaryAt(s, {"^"})
        k == SetMin(I)
    IN  IF I = {} THEN RefUnary(s)
        ELSE RefPow(RefUnary(SubSeq(s, 1, k - 1)), RefPower(SubSeq(s, k + 1, Len(s))))

RefUnary(s) == IF s[1] = "-" THEN -RefAtom(Tail(s)) ELSE RefAtom(s)

RefAtom(s) ==
    IF s[1] = "(" THEN RefExpr(SubSeq(s, 2, Len(s) - 1))
    ELSE IF s[1] = "-" THEN -RefLiteral(Tail(s), Len(s) - 1)
    ELSE IF s[1] = "+" THEN RefLiteral(Tail(s), Len(s) - 1)
    ELSE RefLiteral(s, Len(s))

C5_ExponentPolicy ==
    \A b \in Operands, e \in Operands :
        (ParseDone /\ str = ExponentInput(b, e)) =>
            CASE e = 0 -> errorCode = ParseError_None /\ retval = 1
              [] e < 0 /\ b = 0 -> errorCode = ParseError_Div0
              [] e < 0 /\ b # 0 -> errorCode = ParseError_None /\ retval = 0
              [] e > 0 -> errorCode = ParseError_None /\ retval = b ^ e

C5_Witness ==
    ParseDone /\ str = ExponentInput(-2, 3) /\ errorCode = ParseError_None /\ retval = -8

(* C6: a parse that returns without error has its cursor at the end of the *)
(* input; when parseAddSubtract returned without error and a character     *)
(* other than white space is left, the driver records Syntax with the      *)
(* cursor at the first such character.                                     *)
Unconsumed(p) == {i \in p..(Len(str) - 1) : ~isspace(str[i + 1])}

C6_WholeInputConsumed ==
    /\ []((ParseDone /\ errorCode = ParseError_None) => currentPosition = Len(str))
    /\ [][(At("pis_after") /\ errorCode = ParseError_None
             /\ Unconsumed(currentPosition) # {})
          => (/\ errorCode' = ParseError_Syntax
              /\ currentPosition' = SetMin(Unconsumed(currentPosition)))]_vars

C6_Witness ==
    /\ ParseDone /\ str = <<"3", " ", "4">>
    /\ errorCode = ParseError_Syntax /\ currentPosition = 2

(* C8: "2--5", "2---5" and "--5" parse to 7, -3 and 5; "2----5", "---5"    *)
(* and "--(5)" fail with Syntax: before a literal one '-' is taken by      *)
(* parseUnaryMinus and one by the literal scan (and one more as the binary *)
(* operator after an operand), before '(' only the one of parseUnaryMinus. *)
Valid(v) == errorCode = ParseError_None /\ retval = v

C8_ChainedMinus ==
    ParseDone =>
        /\ str = <<"2", "-", "-", "5">> => Valid(7)
        /\ str = <<"2", "-", "-", "-", "5">> => Valid(-3)
        /\ str = <<"-", "-", "5">> => Valid(5)
        /\ str = <<"2", "-", "-", "-", "-", "5">> => errorCode = ParseError_Syntax
        /\ str = <<"-", "-", "-", "5">> => errorCode = ParseError_Syntax
        /\ str = <<"-", "-", "(", "5", ")">> => errorCode = ParseError_Syntax
        /\ \A k \in 0..MaxMinus :
            /\ str = MinusLiteral(k) =>
                 IF k <= 2 THEN errorCode = ParseError_None
                 ELSE errorCode = ParseError_Syntax
            /\ str = MinusBinary(k) =>
                 IF k <= 3 THEN errorCode = ParseError_None
                 ELSE errorCode = ParseError_Syntax
            /\ str = MinusParen(k) =>
                 IF k <= 1 THEN errorCode = ParseError_None
                 ELSE errorCode = ParseError_Syntax

C8_Witness ==
    ParseDone /\ str = <<"2", "-", "-", "-", "5">> /\ Valid(-3)

(* C10: the cursor offset is between 0 and the length of the input and     *)
(* never decreases, so the caret of the diagnostic is inside the line.     *)
C10_CursorBoundedMonotone ==
    /\ [](0 <= currentPosition /\ currentPosition <= Len(str))
    /\ [][InParse => currentPosition' >= currentPosition]_vars
    /\ [](\A i \in 1..Len(output) :
            output[i].kind = "error" => output[i].caret \in 0..Len(argv[i]))

C10_Witness ==
    /\ pc = "exit" /\ output # <<>> /\ output[1].kind = "error"
    /\ output[1].caret = Len(str) /\ Len(str) > 0

(* C7: two inputs that differ in white space between tokens have the same  *)
(* outcome.  main stops at the first argument that fails, so the two are   *)
(* given in both orders: when the first prints a value, the second prints  *)
(* the same value.                                                         *)
C7_WhitespaceInsensitive ==
    (pc = "exit" /\ Len(argv) = 2 /\ output # <<>> /\ output[1].kind = "value")
        => (Len(output) = 2 /\ output[2] = output[1])

(* C9: every parse returns; each iteration of the operator loops and each  *)
(* recursive call through '^' or '(' moves the cursor forward first; the   *)
(* multiplication loop runs with a positive exponent and counts it down.   *)
CalledFrom(label) == At(label) /\ Len(stack') > Len(stack)

ConsumingCall ==
    \/ CalledFrom("as_loop")
    \/ CalledFrom("md_loop")
    \/ CalledFrom("pe_first")
    \/ CalledFrom("pp_entry") /\ stack'[Len(stack')].pc = "as_entry"

PowCountsDown ==
    At("pe_pow") =>
        /\ Top.result2 > 0
        /\ \/ pc' = "range_abort"
           \/ Len(stack') = Len(stack) /\ stack'[Len(stack')].result2 = Top.result2 - 1
           \/ Len(stack') < Len(stack) /\ Top.result2 = 1

C9_Termination ==
    /\ <>(pc \in {"exit", "range_abort"})
    /\ [][ConsumingCall => currentPosition' > currentPosition]_vars
    /\ [][PowCountsDown]_vars

C9_Witness ==
    /\ pc = "exit" /\ exitStatus = 0
    /\ str = <<"2", "^", "3", "^", "2">> /\ output = <<ValueLine(512)>>

====
